---- MODULE Spec2Model ----
(***************************************************************************)
(* Model of daemon/dns/ebpfhook.go: the eBPF DNS hook of opensnitch.       *)
(*                                                                         *)
(* DnsListenerEbpf loads the eBPF module, locates libc, attaches every     *)
(* declared uprobe whose symbol resolves, starts a consumer goroutine that *)
(* decodes nameLookupEvent records read from the perf map channel and      *)
(* forwards them to Track, then polls until a signal arrives.              *)
(*                                                                         *)
(* Strings are sequences of one-character strings and byte buffers are     *)
(* sequences of numbers 0..255, so that strings.Replace, the symbol        *)
(* comparison, binary.Read, bytes.IndexByte and net.IP.String are computed *)
(* and not assumed.                                                        *)
(***************************************************************************)
EXTENDS Integers, Sequences, FiniteSets, TLC

\* ------------------------------------------------------------------------
\* Bounds of the model
\* ------------------------------------------------------------------------
\* largest number of uprobes the loaded module declares
MaxProbes == 3
\* largest number of buffers the perf map delivers on the channel
MaxEvents == 3
\* largest number of signals the environment sends to the process
MaxSignals == 2

\* ------------------------------------------------------------------------
\* Program constants
\* ------------------------------------------------------------------------
\* nameLookupEvent.AddrType is a uint32
AddrTypeSize == 4
\* nameLookupEvent.Ip is [16]uint8
IpSize == 16
\* nameLookupEvent.Host is [252]byte
HostSize == 252
\* "2 -> AF_INET (ipv4)"
AF_INET == 2
\* sig := make(chan os.Signal, 1)
SigChanCap == 1

\* binary.Size(nameLookupEvent): the three fields, no padding
EventSize == AddrTypeSize + IpSize + HostSize

\* ------------------------------------------------------------------------
\* Strings
\* ------------------------------------------------------------------------
Str_uprobe == <<"u","p","r","o","b","e","/">>
Str_uretprobe == <<"u","r","e","t","p","r","o","b","e","/">>
Str_getaddrinfo == <<"g","e","t","a","d","d","r","i","n","f","o">>
Str_gethostbyname == <<"g","e","t","h","o","s","t","b","y","n","a","m","e">>
Str_getaddr == <<"g","e","t","a","d","d","r">>
Str_nosuch == <<"n","o","s","u","c","h">>

\* strings.Index(s, sub): 1-based position of the leftmost occurrence of sub
\* in s, 0 when there is none
StringsIndex(s, sub) ==
    LET hits == { i \in 1..(Len(s) - Len(sub) + 1) :
                    SubSeq(s, i, i + Len(sub) - 1) = sub }
    IN  IF hits = {} THEN 0
        ELSE CHOOSE i \in hits : \A j \in hits : i <= j

\* strings.Replace(s, old, "", 1): s with the leftmost occurrence of old
\* removed, s itself when old does not occur
StringsReplaceFirst(s, old) ==
    LET i == StringsIndex(s, old)
    IN  IF i = 0 THEN s
        ELSE SubSeq(s, 1, i - 1) \o SubSeq(s, i + Len(old), Len(s))

\* lines 120-121: the function a uprobe is attached to
ProbeFunction(name) ==
    StringsReplaceFirst(StringsReplaceFirst(name, Str_uretprobe), Str_uprobe)

\* ------------------------------------------------------------------------
\* The symbol table of libc and lookupSymbol
\* ------------------------------------------------------------------------
\* elf.Symbol, reduced to the two fields lookupSymbol reads
Sym(n, v) == [Name |-> n, Value |-> v]

\* the tables elffile.Symbols() can return: err is its error result
SymbolTables ==
    { [err |-> FALSE,
       syms |-> << Sym(Str_getaddrinfo, 4660), Sym(Str_gethostbyname, 22136),
                   Sym(Str_getaddrinfo, 39030) >>],
      [err |-> FALSE, syms |-> << Sym(Str_gethostbyname, 22136) >>],
      [err |-> TRUE, syms |-> << >>] }

\* strings.HasPrefix(s, prefix)
HasPrefix(s, prefix) ==
    Len(s) >= Len(prefix) /\ SubSeq(s, 1, Len(prefix)) = prefix

\* a match on the beginning of the symbol's name instead of the whole name
RECURSIVE FirstMatchPrefix(_, _, _)
FirstMatchPrefix(symbols, symbolName, i) ==
    IF i > Len(symbols) THEN 0
    ELSE IF HasPrefix(symbols[i].Name, symbolName) THEN i
    ELSE FirstMatchPrefix(symbols, symbolName, i + 1)

\* first index of symbols whose Name is symbolName, 0 when there is none
RECURSIVE FirstMatch(_, _, _)
FirstMatch(symbols, symbolName, i) ==
    IF i > Len(symbols) THEN 0
    ELSE IF symbols[i].Name = symbolName THEN i
    ELSE FirstMatch(symbols, symbolName, i + 1)

\* lookupSymbol(elffile, symbolName): (offset, err)
lookupSymbol(elffile, symbolName) ==
    IF elffile.err THEN [offset |-> 0, err |-> "symbols"]
    ELSE LET i == FirstMatch(elffile.syms, symbolName, 1)
         IN  IF i # 0 THEN [offset |-> elffile.syms[i].Value, err |-> "nil"]
             ELSE [offset |-> 0, err |-> "notfound"]

\* ------------------------------------------------------------------------
\* The uprobes a module can declare (keys of the module's uprobe map)
\* ------------------------------------------------------------------------
ProbeNames ==
    { Str_uprobe \o Str_getaddrinfo,
      Str_uretprobe \o Str_getaddrinfo,
      Str_uprobe \o Str_gethostbyname,
      Str_uprobe \o Str_nosuch }

\* ------------------------------------------------------------------------
\* Uprobe names and symbol tables for the derivation of the target function
\* and the symbol lookup
\* ------------------------------------------------------------------------
Str_addrinfo == <<"a","d","d","r","i","n","f","o">>
\* "xuprobe/y": a name that holds the text of a kind prefix
Str_x_uprobe_y == <<"x">> \o Str_uprobe \o <<"y">>
\* "xy"
Str_xy == <<"x","y">>

LookupProbeNames ==
    { Str_uprobe \o Str_getaddrinfo,
      Str_uretprobe \o Str_getaddrinfo,
      Str_uprobe \o Str_getaddr,
      Str_uprobe \o Str_addrinfo,
      Str_uprobe \o Str_nosuch,
      Str_uretprobe \o Str_x_uprobe_y }

LookupSymbolTables ==
    { [err |-> FALSE,
       syms |-> << Sym(Str_getaddrinfo, 4660), Sym(Str_gethostbyname, 22136) >>],
      [err |-> FALSE,
       syms |-> << Sym(Str_getaddrinfo, 4660), Sym(Str_gethostbyname, 22136),
                   Sym(Str_getaddrinfo, 39030) >>],
      [err |-> FALSE,
       syms |-> << Sym(Str_getaddr, 8738), Sym(Str_getaddrinfo, 4660),
                   Sym(Str_xy, 13107), Sym(Str_x_uprobe_y, 17476) >>],
      [err |-> TRUE, syms |-> << >>] }

\* ------------------------------------------------------------------------
\* Byte buffers and the decoding of nameLookupEvent
\* ------------------------------------------------------------------------
Byte == 0..255

\* n copies of the byte b
Fill(n, b) == [i \in 1..n |-> b]

\* the zero value of "var event nameLookupEvent"
ZeroEvent == [AddrType |-> [hi |-> 0, lo |-> 0], Ip |-> Fill(IpSize, 0), Host |-> Fill(HostSize, 0)]

\* a uint32 as two 16-bit halves (the values of the model checker's integers
\* stop below 2^31): hi * 65536 + lo
Uint32(n) == [hi |-> (n \div 65536) % 65536, lo |-> n % 65536]

\* the four bytes read most significant first
BigEndianUint32(b) == [hi |-> b[2] + 256 * b[1], lo |-> b[4] + 256 * b[3]]

\* binary.LittleEndian.Uint32 of four bytes: b[1] is the least significant
LittleEndianUint32(b) == [hi |-> b[3] + 256 * b[4], lo |-> b[1] + 256 * b[2]]

\* binary.LittleEndian.PutUint32
LittleEndianPutUint32(v) ==
    << v.lo % 256, v.lo \div 256, v.hi % 256, v.hi \div 256 >>

\* the record the eBPF program writes: family tag, address, hostname padded
\* with zero bytes up to the size of the Host field
WireEvent(af, ip, host) ==
    LittleEndianPutUint32(af) \o ip \o host \o Fill(HostSize - Len(host), 0)

\* line 155: the arguments data[:4], data[4:20], data[20:] of log.Debug are
\* evaluated before the decode; data[20:] is out of range whenever
\* len(data) < 20, whatever the capacity of the slice, and the goroutine
\* panics
LogDebugPanics(data) == Len(data) < AddrTypeSize + IpSize

\* a read whose error on a short buffer is dropped: the record keeps what it
\* held and the iteration goes on as if it had been decoded
BinaryReadErrorDropped(data, old) ==
    IF Len(data) < EventSize THEN [err |-> "nil", event |-> old]
    ELSE [err |-> "nil",
          event |-> [AddrType |-> LittleEndianUint32(SubSeq(data, 1, AddrTypeSize)),
                     Ip |-> SubSeq(data, AddrTypeSize + 1, AddrTypeSize + IpSize),
                     Host |-> SubSeq(data, AddrTypeSize + IpSize + 1, EventSize)]]

\* line 156: binary.Read(bytes.NewBuffer(data), binary.LittleEndian, &event).
\* It first reads EventSize bytes (io.ReadFull); when the buffer is shorter
\* it returns io.EOF or io.ErrUnexpectedEOF and leaves event as it was.
\* Bytes after the first EventSize stay unread.
BinaryRead(data, old) ==
    IF Len(data) = 0 THEN [err |-> "EOF", event |-> old]
    ELSE IF Len(data) < EventSize THEN [err |-> "ErrUnexpectedEOF", event |-> old]
    ELSE [err |-> "nil",
          event |-> [AddrType |-> LittleEndianUint32(SubSeq(data, 1, AddrTypeSize)),
                     Ip |-> SubSeq(data, AddrTypeSize + 1, AddrTypeSize + IpSize),
                     Host |-> SubSeq(data, AddrTypeSize + IpSize + 1, EventSize)]]

\* the index of the last c in b instead of the first
BytesLastIndexByte(b, c) ==
    LET hits == { i \in 1..Len(b) : b[i] = c }
    IN  IF hits = {} THEN -1
        ELSE (CHOOSE i \in hits : \A j \in hits : i >= j) - 1

\* bytes.IndexByte(b, c): 0-based index of the first c in b, -1 when absent
BytesIndexByte(b, c) ==
    LET hits == { i \in 1..Len(b) : b[i] = c }
    IN  IF hits = {} THEN -1
        ELSE (CHOOSE i \in hits : \A j \in hits : i <= j) - 1

\* line 162: event.Host[:bytes.IndexByte(event.Host[:], 0)].  The slice
\* expression panics when the index is -1 (no zero byte in Host).
HostOf(ev) ==
    LET n == BytesIndexByte(ev.Host, 0)
    IN  IF n < 0 THEN [panic |-> TRUE, host |-> << >>]
        ELSE [panic |-> FALSE, host |-> SubSeq(ev.Host, 1, n)]

\* lines 163-169: the bytes of the net.IP
IpOf(ev) ==
    IF ev.AddrType = Uint32(AF_INET) THEN SubSeq(ev.Ip, 1, 4) ELSE ev.Ip

\* ------------------------------------------------------------------------
\* net.IP.String
\* ------------------------------------------------------------------------
DecDigit(d) == <<"0","1","2","3","4","5","6","7","8","9">>[d + 1]
HexDigit(d) == <<"0","1","2","3","4","5","6","7","8","9","a","b","c","d","e","f">>[d + 1]

\* decimal text of a byte
RECURSIVE Itoa(_)
Itoa(n) == IF n < 10 THEN << DecDigit(n) >>
           ELSE Itoa(n \div 10) \o << DecDigit(n % 10) >>

\* lower-case hexadecimal text of a 16-bit group, no leading zeros
RECURSIVE Hex(_)
Hex(n) == IF n < 16 THEN << HexDigit(n) >>
          ELSE Hex(n \div 16) \o << HexDigit(n % 16) >>

\* dotted quad of four bytes
DottedQuad(b) ==
    Itoa(b[1]) \o <<".">> \o Itoa(b[2]) \o <<".">> \o Itoa(b[3]) \o <<".">> \o Itoa(b[4])

\* IP.To4 of a 16-byte address: the last four bytes of an IPv4-mapped address
IsV4Mapped(ip) ==
    /\ \A i \in 1..10 : ip[i] = 0
    /\ ip[11] = 255
    /\ ip[12] = 255

\* the eight 16-bit groups of a 16-byte address (0-based index g)
Group(ip, g) == 256 * ip[2 * g + 1] + ip[2 * g + 2]

\* end (exclusive, 0-based) of the run of zero groups that starts at group i
RECURSIVE ZeroRunEnd(_, _)
ZeroRunEnd(ip, j) ==
    IF j < 8 /\ Group(ip, j) = 0 THEN ZeroRunEnd(ip, j + 1) ELSE j

\* the scan for the longest run of zero groups: <<e0, e1>>, leftmost longest
RECURSIVE LongestZeroRun(_, _, _, _)
LongestZeroRun(ip, i, e0, e1) ==
    IF i >= 8 THEN << e0, e1 >>
    ELSE LET j == ZeroRunEnd(ip, i)
         IN  IF j > i /\ j - i > e1 - e0
             THEN LongestZeroRun(ip, j + 1, i, j)
             ELSE LongestZeroRun(ip, i + 1, e0, e1)

\* text of the groups from group i on, with the run e0..e1 written as "::"
RECURSIVE Groups6(_, _, _, _)
Groups6(ip, i, e0, e1) ==
    IF i >= 8 THEN << >>
    ELSE IF i = e0
         THEN <<":", ":">> \o (IF e1 >= 8 THEN << >>
                               ELSE Hex(Group(ip, e1)) \o Groups6(ip, e1 + 1, e0, e1))
    ELSE (IF i > 0 THEN <<":">> ELSE << >>) \o Hex(Group(ip, i))
         \o Groups6(ip, i + 1, e0, e1)

\* net.IP.String() for the two lengths the consumer builds
IPString(ip) ==
    IF Len(ip) = 4 THEN DottedQuad(ip)
    ELSE IF IsV4Mapped(ip) THEN DottedQuad(SubSeq(ip, 13, 16))
    ELSE LET e == LongestZeroRun(ip, 0, -1, -1)
             c == IF e[2] - e[1] >= 2 THEN e ELSE << -1, -1 >>
         IN  Groups6(ip, 0, c[1], c[2])

\* ------------------------------------------------------------------------
\* The buffers the perf map can deliver
\* ------------------------------------------------------------------------
\* "example.com"
Host_example == << 101, 120, 97, 109, 112, 108, 101, 46, 99, 111, 109 >>
\* "a.b"
Host_ab == << 97, 46, 98 >>

\* 192.168.1.1 in the first four address bytes
Ip_192_168_1_1 == << 192, 168, 1, 1 >> \o Fill(12, 0)
\* 2001:db8::1
Ip_2001_db8__1 == << 32, 1, 13, 184 >> \o Fill(11, 0) \o << 1 >>

\* a well-formed IPv4 event
Buf_v4 == WireEvent(Uint32(AF_INET), Ip_192_168_1_1, Host_example)
\* a well-formed IPv6 event (AF_INET6 = 10)
Buf_v6 == WireEvent(Uint32(10), Ip_2001_db8__1, Host_ab)
\* a full-length event whose Host bytes are all non-zero
Buf_nozero == WireEvent(Uint32(AF_INET), Ip_192_168_1_1, Fill(HostSize, 97))
\* a record cut inside the Host field
Buf_cut == SubSeq(Buf_v6, 1, 100)
\* a record cut inside the Ip field
Buf_short == SubSeq(Buf_v4, 1, 10)
\* an empty record
Buf_empty == << >>

Buffers == { Buf_v4, Buf_v6, Buf_nozero, Buf_cut, Buf_short, Buf_empty }

\* ------------------------------------------------------------------------
\* Full-length records for the decoding of the family tag, the address and
\* the hostname
\* ------------------------------------------------------------------------
\* 192.168.1.1 followed by twelve non-zero bytes
Ip_192_168_1_1_junk == << 192, 168, 1, 1, 1, 2, 3, 4, 5, 6, 7, 8, 9, 10, 11, 12 >>
\* ::ffff:1.2.3.4
Ip_mapped_1_2_3_4 == Fill(10, 0) \o << 255, 255, 1, 2, 3, 4 >>
\* "ab", a zero byte, then more non-zero bytes
Host_ab_zero_cd == << 97, 98, 0, 99, 100, 0, 101 >>
\* a zero byte first, then non-zero bytes
Host_zero_first == << 0, 120, 121 >>
\* non-zero bytes up to the last one, which is the only zero byte
Host_longest == Fill(HostSize - 1, 122)

\* family 2, the bytes after the fourth address byte not zero
Buf_v4_junk == WireEvent(Uint32(AF_INET), Ip_192_168_1_1_junk, Host_example)
\* family 0x00000102: the bytes 2, 1, 0, 0
Buf_af258 == WireEvent(Uint32(258), Ip_192_168_1_1_junk, Host_ab)
\* family 0x00010002: the bytes 2, 0, 1, 0
Buf_af65538 == WireEvent(Uint32(65538), Ip_192_168_1_1_junk, Host_ab)
\* family 0x02000000: the bytes 0, 0, 0, 2
Buf_af2be == WireEvent(Uint32(33554432), Ip_192_168_1_1_junk, Host_ab)
\* family 10, an IPv4-mapped address
Buf_mapped == WireEvent(Uint32(10), Ip_mapped_1_2_3_4, Host_ab)
\* bytes after the first zero byte of Host
Buf_host_tail == WireEvent(Uint32(AF_INET), Ip_192_168_1_1, Host_ab_zero_cd)
\* Host starts with the zero byte
Buf_host_empty == WireEvent(Uint32(10), Ip_2001_db8__1, Host_zero_first)
\* Host is full but for its last byte
Buf_host_longest == WireEvent(Uint32(AF_INET), Ip_192_168_1_1, Host_longest)

DecodeBuffers ==
    { Buf_v4, Buf_v4_junk, Buf_af258, Buf_af65538, Buf_af2be,
      Buf_mapped, Buf_host_tail, Buf_host_empty, Buf_host_longest }

\* ------------------------------------------------------------------------
\* State
\* ------------------------------------------------------------------------
VARIABLES
    pc,              \* position of the goroutine running DnsListenerEbpf
    m,               \* the bpf module: "new", "loaded" or "closed"
    uprobes,         \* names of the uprobes the module declares
    libc_elf,        \* the symbol table of the libc that elf.Open returns
    remaining,       \* uprobes m.IterUprobes() has not yet yielded
    attempts,        \* one record per loop iteration, in order
    probes_attached, \* the counter of line 118
    retErr,          \* the value DnsListenerEbpf returns
    ops,             \* calls made on the module and its perf map, in order
    sigRegistered,   \* signal.Notify was called
    sig,             \* number of signals held in the channel sig
    sigSent,         \* signals the environment has sent so far
    cpc,             \* position of the consumer goroutine
    event,           \* the consumer's "var event nameLookupEvent"
    data,            \* the buffer the consumer received last
    received,        \* every buffer the consumer received, in order
    pending,         \* arguments computed for the next Track call
    tracked,         \* the Track calls made, in order
    warnings,        \* decode failures logged by the consumer
    delivered,       \* buffers received from the channel so far
    crashed          \* a goroutine panicked: the process is gone

vars == << pc, m, uprobes, libc_elf, remaining, attempts, probes_attached,
           retErr, ops, sigRegistered, sig, sigSent, cpc, event, data,
           received, pending, tracked, warnings, delivered, crashed >>

mainVars == << pc, m, remaining, attempts, probes_attached, retErr, ops >>
sigVars == << sigRegistered, sig, sigSent >>
consumerVars == << cpc, event, data, received, pending, tracked, warnings,
                   delivered, crashed >>
inputVars == << uprobes, libc_elf >>

NoPair == [ip |-> << >>, host |-> << >>]

Init ==
    /\ pc = "load"
    /\ m = "new"
    /\ uprobes \in { S \in SUBSET ProbeNames : Cardinality(S) <= MaxProbes }
    /\ libc_elf \in SymbolTables
    /\ remaining = {}
    /\ attempts = << >>
    /\ probes_attached = 0
    /\ retErr = "none"
    /\ ops = << >>
    /\ sigRegistered = FALSE
    /\ sig = 0
    /\ sigSent = 0
    /\ cpc = "none"
    /\ event = ZeroEvent
    /\ data = << >>
    /\ received = << >>
    /\ pending = NoPair
    /\ tracked = << >>
    /\ warnings = 0
    /\ delivered = 0
    /\ crashed = FALSE

Called(op) == \E i \in 1..Len(ops) : ops[i] = op

\* ------------------------------------------------------------------------
\* DnsListenerEbpf
\* ------------------------------------------------------------------------
\* a return that leaves without running the deferred call
AfterReturnNoDefer(deferRegistered) == "returned"

\* where a return statement leads: to the deferred m.Close() once line 100
\* has registered it, straight out of the function before that
AfterReturn(deferRegistered) == IF deferRegistered THEN "defer" ELSE "returned"

\* lines 95-100: m.Load(nil); on success the Close is deferred
Load ==
    /\ pc = "load" /\ ~crashed
    /\ \E ok \in BOOLEAN :
         IF ok
         THEN /\ m' = "loaded"
              /\ pc' = "findLibc"
              /\ retErr' = retErr
         ELSE /\ m' = m
              /\ pc' = AfterReturn(FALSE)
              /\ retErr' = "load"
    /\ ops' = Append(ops, "Load")
    /\ UNCHANGED << remaining, attempts, probes_attached >>
    /\ UNCHANGED << sigVars, consumerVars, inputVars >>

\* lines 106-111: findLibc()
FindLibc ==
    /\ pc = "findLibc" /\ ~crashed
    /\ \E found \in BOOLEAN :
         IF found
         THEN pc' = "elfOpen" /\ retErr' = retErr
         ELSE pc' = AfterReturn(TRUE) /\ retErr' = "findLibc"
    /\ UNCHANGED << m, remaining, attempts, probes_attached, ops >>
    /\ UNCHANGED << sigVars, consumerVars, inputVars >>

\* lines 113-119: elf.Open(libcFile); on success the counter is set and the
\* loop starts ranging over m.IterUprobes()
ElfOpen ==
    /\ pc = "elfOpen" /\ ~crashed
    /\ \E opened \in BOOLEAN :
         IF opened
         THEN /\ pc' = "attach"
              /\ retErr' = retErr
              /\ remaining' = uprobes
              /\ ops' = Append(ops, "IterUprobes")
         ELSE /\ pc' = AfterReturn(TRUE)
              /\ retErr' = "elfOpen"
              /\ UNCHANGED << remaining, ops >>
    /\ probes_attached' = 0
    /\ UNCHANGED << m, attempts >>
    /\ UNCHANGED << sigVars, consumerVars, inputVars >>

Attempt(name, fn, offset, outcome) ==
    [name |-> name, fn |-> fn, offset |-> offset, outcome |-> outcome]

\* a failed lookup that returns instead of continuing
AfterLookupErrorReturn == AfterReturn(TRUE)

\* where the loop goes after a failed lookup (line 125: continue)
AfterLookupError == "attach"

\* a failed lookup after which the same uprobe is tried again
AttachSkipRetry ==
    /\ pc = "attach" /\ ~crashed
    /\ \E uprobe \in remaining :
         LET probeFunction == ProbeFunction(uprobe)
             r == lookupSymbol(libc_elf, probeFunction)
         IN  /\ r.err # "nil"
             /\ remaining' = remaining
             /\ attempts' = Append(attempts, Attempt(uprobe, probeFunction, r.offset, "skipped"))
    /\ pc' = AfterLookupError
    /\ retErr' = IF pc' = "attach" THEN retErr ELSE "lookup"
    /\ UNCHANGED << m, probes_attached, ops >>
    /\ UNCHANGED << sigVars, consumerVars, inputVars >>

\* lines 119-126: the next uprobe's symbol is not found: warn and continue
AttachSkip ==
    /\ pc = "attach" /\ ~crashed
    /\ \E uprobe \in remaining :
         LET probeFunction == ProbeFunction(uprobe)
             r == lookupSymbol(libc_elf, probeFunction)
         IN  /\ r.err # "nil"
             /\ remaining' = remaining \ {uprobe}
             /\ attempts' = Append(attempts, Attempt(uprobe, probeFunction, r.offset, "skipped"))
    /\ pc' = AfterLookupError
    /\ retErr' = IF pc' = "attach" THEN retErr ELSE "lookup"
    /\ UNCHANGED << m, probes_attached, ops >>
    /\ UNCHANGED << sigVars, consumerVars, inputVars >>

\* lines 119-132: the symbol resolves and the kernel accepts the attach
AttachOk ==
    /\ pc = "attach" /\ ~crashed
    /\ \E uprobe \in remaining :
         LET probeFunction == ProbeFunction(uprobe)
             r == lookupSymbol(libc_elf, probeFunction)
         IN  /\ r.err = "nil"
             /\ remaining' = remaining \ {uprobe}
             /\ attempts' = Append(attempts, Attempt(uprobe, probeFunction, r.offset, "attached"))
    /\ ops' = Append(ops, "AttachUprobe")
    /\ probes_attached' = probes_attached + 1
    /\ UNCHANGED << pc, m, retErr >>
    /\ UNCHANGED << sigVars, consumerVars, inputVars >>

\* a rejected attach that is skipped like a failed lookup
AfterAttachErrorContinue == "attach"

\* where the loop goes after bpf.AttachUprobe failed (line 130: return err)
AfterAttachError == AfterReturn(TRUE)

\* lines 119-131: the symbol resolves and the kernel rejects the attach
AttachRejected ==
    /\ pc = "attach" /\ ~crashed
    /\ \E uprobe \in remaining :
         LET probeFunction == ProbeFunction(uprobe)
             r == lookupSymbol(libc_elf, probeFunction)
         IN  /\ r.err = "nil"
             /\ remaining' = remaining \ {uprobe}
             /\ attempts' = Append(attempts, Attempt(uprobe, probeFunction, r.offset, "rejected"))
    /\ ops' = Append(ops, "AttachUprobe")
    /\ pc' = AfterAttachError
    /\ retErr' = IF pc' = "attach" THEN retErr ELSE "attach"
    /\ UNCHANGED << m, probes_attached >>
    /\ UNCHANGED << sigVars, consumerVars, inputVars >>

\* the test after the loop never firing
NoProbesAttachedNever(n) == n < 0

\* the test after the loop off by one
NoProbesAttachedOffByOne(n) == n <= 1

\* line 135: the test after the loop
NoProbesAttached(n) == n = 0

\* a loop that can be left while uprobes are still to come
IterExhaustedEarly(r) == TRUE

\* line 119: the range loop ends when the iterator's channel is closed
IterExhausted(r) == r = {}

\* the zero-probes exit that warns and then returns no error
AttachDoneReturnsNil ==
    /\ pc = "attach" /\ ~crashed
    /\ remaining = {}
    /\ IF probes_attached = 0
       THEN pc' = AfterReturn(TRUE) /\ retErr' = "nil"
       ELSE pc' = "initPerfMap" /\ retErr' = retErr
    /\ UNCHANGED << m, remaining, attempts, probes_attached, ops >>
    /\ UNCHANGED << sigVars, consumerVars, inputVars >>

\* lines 133-138: the iterator is exhausted
AttachDone ==
    /\ pc = "attach" /\ ~crashed
    /\ IterExhausted(remaining)
    /\ IF NoProbesAttached(probes_attached)
       THEN pc' = AfterReturn(TRUE) /\ retErr' = "noProbes"
       ELSE pc' = "initPerfMap" /\ retErr' = retErr
    /\ UNCHANGED << m, remaining, attempts, probes_attached, ops >>
    /\ UNCHANGED << sigVars, consumerVars, inputVars >>

\* lines 141-147: make(chan []byte) and bpf.InitPerfMap
InitPerfMap ==
    /\ pc = "initPerfMap" /\ ~crashed
    /\ \E ok \in BOOLEAN :
         IF ok
         THEN pc' = "notify" /\ retErr' = retErr
         ELSE pc' = AfterReturn(TRUE) /\ retErr' = "initPerfMap"
    /\ ops' = Append(ops, "InitPerfMap")
    /\ UNCHANGED << m, remaining, attempts, probes_attached >>
    /\ UNCHANGED << sigVars, consumerVars, inputVars >>

\* lines 148-149: make(chan os.Signal, 1) and signal.Notify
SignalNotify ==
    /\ pc = "notify" /\ ~crashed
    /\ pc' = "go"
    /\ sigRegistered' = TRUE
    /\ sig' = 0
    /\ UNCHANGED << m, remaining, attempts, probes_attached, retErr, ops >>
    /\ UNCHANGED << sigSent, consumerVars, inputVars >>

\* lines 151-174: the go statement starts the consumer
GoConsumer ==
    /\ pc = "go" /\ ~crashed
    /\ pc' = "pollStart"
    /\ cpc' = "recv"
    /\ event' = ZeroEvent
    /\ UNCHANGED << m, remaining, attempts, probes_attached, retErr, ops >>
    /\ UNCHANGED << data, received, pending, tracked, warnings, delivered, crashed >>
    /\ UNCHANGED << sigVars, inputVars >>

\* line 176: perfMap.PollStart()
PollStart ==
    /\ pc = "pollStart" /\ ~crashed
    /\ pc' = "waitSig"
    /\ ops' = Append(ops, "PollStart")
    /\ UNCHANGED << m, remaining, attempts, probes_attached, retErr >>
    /\ UNCHANGED << sigVars, consumerVars, inputVars >>

\* line 177: the receive from sig can proceed
SigReady(n) == n > 0

\* lines 177-178: <-sig
WaitSig ==
    /\ pc = "waitSig" /\ ~crashed
    /\ SigReady(sig)
    /\ sig' = IF sig > 0 THEN sig - 1 ELSE 0
    /\ pc' = "pollStop"
    /\ UNCHANGED << m, remaining, attempts, probes_attached, retErr, ops >>
    /\ UNCHANGED << sigRegistered, sigSent, consumerVars, inputVars >>

\* lines 179-180: perfMap.PollStop(); return nil
PollStop ==
    /\ pc = "pollStop" /\ ~crashed
    /\ ops' = Append(ops, "PollStop")
    /\ pc' = AfterReturn(TRUE)
    /\ retErr' = "nil"
    /\ UNCHANGED << m, remaining, attempts, probes_attached >>
    /\ UNCHANGED << sigVars, consumerVars, inputVars >>

\* line 100: the deferred m.Close() runs, then the function returns
DeferredClose ==
    /\ pc = "defer" /\ ~crashed
    /\ m' = "closed"
    /\ ops' = Append(ops, "Close")
    /\ pc' = "returned"
    /\ UNCHANGED << remaining, attempts, probes_attached, retErr >>
    /\ UNCHANGED << sigVars, consumerVars, inputVars >>

\* ------------------------------------------------------------------------
\* The environment: signals and the perf map's poller
\* ------------------------------------------------------------------------
\* os/signal delivers a registered signal with a non-blocking send: it is
\* dropped when the channel is full.  Signals that arrive before line 149
\* are not part of the run (the default disposition ends the process).
Signal ==
    /\ sigRegistered /\ ~crashed
    /\ sigSent < MaxSignals
    /\ sigSent' = sigSent + 1
    /\ sig' = IF sig < SigChanCap THEN sig + 1 ELSE sig
    /\ UNCHANGED << sigRegistered, mainVars, consumerVars, inputVars >>

\* the poller sends on the channel between PollStart and PollStop
Polling == Called("PollStart") /\ ~Called("PollStop")

\* ------------------------------------------------------------------------
\* The consumer goroutine
\* ------------------------------------------------------------------------
\* lines 154-171: one of the buffers bufs is received (the channel is
\* unbuffered, the poller's send and this receive are one step), logged,
\* decoded and converted
ConsumerRecvFrom(bufs) ==
    /\ cpc = "recv" /\ ~crashed
    /\ Polling
    /\ delivered < MaxEvents
    /\ \E buf \in bufs :
         /\ data' = buf
         /\ received' = Append(received, buf)
         /\ delivered' = delivered + 1
         /\ IF LogDebugPanics(buf)
            THEN /\ crashed' = TRUE
                 /\ cpc' = "dead"
                 /\ UNCHANGED << event, pending, warnings >>
            ELSE LET r == BinaryRead(buf, event)
                     h == HostOf(r.event)
                     ip == IpOf(r.event)
                 IN  IF r.err # "nil"
                     THEN /\ warnings' = warnings + 1
                          /\ event' = r.event
                          /\ UNCHANGED << cpc, pending, crashed >>
                     ELSE IF h.panic
                     THEN /\ event' = r.event
                          /\ crashed' = TRUE
                          /\ cpc' = "dead"
                          /\ UNCHANGED << pending, warnings >>
                     ELSE /\ event' = r.event
                          /\ pending' = [ip |-> IPString(ip), host |-> h.host]
                          /\ cpc' = "track"
                          /\ UNCHANGED << warnings, crashed >>
    /\ UNCHANGED tracked
    /\ UNCHANGED << mainVars, sigVars, inputVars >>

\* lines 154-171 for the buffers of the main specification
ConsumerRecv == ConsumerRecvFrom(Buffers)

\* a Track call made twice for one buffer
ConsumerTrackTwice ==
    /\ cpc = "track" /\ ~crashed
    /\ tracked' = tracked \o << pending, pending >>
    /\ cpc' = "recv"
    /\ UNCHANGED << event, data, received, pending, warnings, delivered, crashed >>
    /\ UNCHANGED << mainVars, sigVars, inputVars >>

\* a Track call that overtakes the calls made before it
ConsumerTrackOutOfOrder ==
    /\ cpc = "track" /\ ~crashed
    /\ tracked' = << pending >> \o tracked
    /\ cpc' = "recv"
    /\ UNCHANGED << event, data, received, pending, warnings, delivered, crashed >>
    /\ UNCHANGED << mainVars, sigVars, inputVars >>

\* line 172: Track(ip.String(), host), then back to the receive
ConsumerTrack ==
    /\ cpc = "track" /\ ~crashed
    /\ tracked' = Append(tracked, pending)
    /\ cpc' = "recv"
    /\ UNCHANGED << event, data, received, pending, warnings, delivered, crashed >>
    /\ UNCHANGED << mainVars, sigVars, inputVars >>

Next ==
    \/ Load
    \/ FindLibc
    \/ ElfOpen
    \/ AttachSkip
    \/ AttachOk
    \/ AttachRejected
    \/ AttachDone
    \/ InitPerfMap
    \/ SignalNotify
    \/ GoConsumer
    \/ PollStart
    \/ WaitSig
    \/ PollStop
    \/ DeferredClose
    \/ Signal
    \/ ConsumerRecv
    \/ ConsumerTrack

Spec == Init /\ [][Next]_vars

\* ------------------------------------------------------------------------
\* The same program with a module that declares at most one uprobe, taken
\* from LookupProbeNames, and a libc with one of LookupSymbolTables
\* ------------------------------------------------------------------------
LookupInit ==
    /\ pc = "load"
    /\ m = "new"
    /\ uprobes \in { S \in SUBSET LookupProbeNames : Cardinality(S) <= 1 }
    /\ libc_elf \in LookupSymbolTables
    /\ remaining = {}
    /\ attempts = << >>
    /\ probes_attached = 0
    /\ retErr = "none"
    /\ ops = << >>
    /\ sigRegistered = FALSE
    /\ sig = 0
    /\ sigSent = 0
    /\ cpc = "none"
    /\ event = ZeroEvent
    /\ data = << >>
    /\ received = << >>
    /\ pending = NoPair
    /\ tracked = << >>
    /\ warnings = 0
    /\ delivered = 0
    /\ crashed = FALSE

LookupSpec == LookupInit /\ [][Next]_vars

\* ------------------------------------------------------------------------
\* The same program fed with the full-length records of DecodeBuffers
\* ------------------------------------------------------------------------
DecodeInit ==
    /\ Init
    /\ uprobes = { Str_uprobe \o Str_getaddrinfo, Str_uprobe \o Str_nosuch }
    /\ libc_elf.err = FALSE
    /\ Len(libc_elf.syms) = 3

\* lines 154-171 for the records of DecodeBuffers
ConsumerRecvDecode == ConsumerRecvFrom(DecodeBuffers)

DecodeNext ==
    \/ Load
    \/ FindLibc
    \/ ElfOpen
    \/ AttachSkip
    \/ AttachOk
    \/ AttachRejected
    \/ AttachDone
    \/ InitPerfMap
    \/ SignalNotify
    \/ GoConsumer
    \/ PollStart
    \/ WaitSig
    \/ PollStop
    \/ DeferredClose
    \/ Signal
    \/ ConsumerRecvDecode
    \/ ConsumerTrack

DecodeSpec == DecodeInit /\ [][DecodeNext]_vars

\* the scheduler runs every goroutine that can take a step; the environment
\* (signals, buffers) is under no such obligation
Fairness ==
    /\ WF_vars(Load) /\ WF_vars(FindLibc) /\ WF_vars(ElfOpen)
    /\ WF_vars(AttachSkip) /\ WF_vars(AttachOk) /\ WF_vars(AttachRejected)
    /\ WF_vars(AttachDone) /\ WF_vars(InitPerfMap) /\ WF_vars(SignalNotify)
    /\ WF_vars(GoConsumer) /\ WF_vars(PollStart) /\ WF_vars(WaitSig)
    /\ WF_vars(PollStop) /\ WF_vars(DeferredClose) /\ WF_vars(ConsumerTrack)

FairSpec == Spec /\ Fairness

\* ------------------------------------------------------------------------
\* Properties
\* ------------------------------------------------------------------------
CountOps(op) == Cardinality({ i \in 1..Len(ops) : ops[i] = op })
Outcomes(o) == { i \in 1..Len(attempts) : attempts[i].outcome = o }
Returned == pc = "returned"
ReturnedError == retErr \notin {"none", "nil"}

\* the range loop of lines 119-133 ran to the end of the iterator
PassEnded ==
    /\ Called("IterUprobes")
    /\ pc # "attach"
    /\ remaining = {}
    /\ Outcomes("rejected") = {}

\* C1: when the attachment pass ends with the counter at 0 (every lookup
\* missed, for any number of declared uprobes), the run is returning an
\* error, PollStart has not been called, no consumer was started and no
\* signal handler was registered.
C1_NoPollingWithZeroProbes ==
    (PassEnded /\ probes_attached = 0) =>
        /\ pc \in {"defer", "returned"}
        /\ ReturnedError
        /\ ~Called("PollStart")
        /\ ~Called("InitPerfMap")
        /\ cpc = "none"
        /\ ~sigRegistered

C1_Witness ==
    /\ Returned
    /\ PassEnded
    /\ probes_attached = 0
    /\ Len(attempts) >= 2
    /\ retErr = "noProbes"

\* C2: once the load succeeded, the module is closed exactly once before the
\* run returns, whichever return statement ends it, and no call is made on
\* the module or its perf map after the Close.
C2_ClosedOnceOnEveryExit ==
    /\ CountOps("Close") <= 1
    /\ (Returned /\ retErr # "load") => (m = "closed" /\ CountOps("Close") = 1)
    /\ (m = "closed") => (Returned /\ ops[Len(ops)] = "Close")
    /\ (retErr = "load") => (m = "new" /\ CountOps("Close") = 0)

C2_Witness ==
    /\ Returned
    /\ retErr = "attach"
    /\ m = "closed"
    /\ Outcomes("attached") # {}

\* C3 (as claimed): whenever the module has been closed, the consumer
\* goroutine is no longer waiting on the channel nor inside an iteration.
C3_ConsumerStoppedBeforeClose ==
    (m = "closed") => (cpc \notin {"recv", "track"})

\* the Host bytes of a full-length buffer
HostRegion(buf) == SubSeq(buf, AddrTypeSize + IpSize + 1, EventSize)

\* C4 (as claimed): every received buffer that does not decode, of any
\* length below the record size, is logged and skipped: no Track call is
\* prepared or made for it and the consumer is back at the receive, alive.
C4_CorruptRecordSkipped ==
    [][ (delivered' = delivered + 1 /\ Len(data') < EventSize) =>
            /\ ~crashed'
            /\ cpc' = "recv"
            /\ warnings' = warnings + 1
            /\ tracked' = tracked
            /\ pending' = pending ]_vars

\* C5 (as claimed): a full-length buffer whose Host bytes contain no zero
\* byte does not crash the consumer, which goes on to call Track with the
\* whole Host region as the hostname.
C5_NoZeroHostIsWholeRegion ==
    [][ ( /\ delivered' = delivered + 1
          /\ Len(data') >= EventSize
          /\ BytesIndexByte(HostRegion(data'), 0) = -1 ) =>
            /\ ~crashed'
            /\ cpc' = "track"
            /\ pending'.host = HostRegion(data') ]_vars

\* C6: a rejected attach is the last iteration of the loop: no uprobe is
\* resolved or attached after it, the run returns the attach error, PollStart
\* is never called and the module is closed before the run returns, whatever
\* was attached or skipped before.
C6_RejectedAttachIsFatal ==
    \A i \in Outcomes("rejected") :
        /\ i = Len(attempts)
        /\ pc \in {"defer", "returned"}
        /\ retErr = "attach"
        /\ CountOps("AttachUprobe") = Cardinality(Outcomes("attached")) + 1
        /\ probes_attached = Cardinality(Outcomes("attached"))
        /\ ~Called("InitPerfMap")
        /\ ~Called("PollStart")
        /\ cpc = "none"
        /\ Returned => m = "closed"

C6_Witness ==
    /\ Returned
    /\ Len(attempts) = 2
    /\ attempts[1].outcome = "attached"
    /\ attempts[2].outcome = "rejected"
    /\ remaining # {}
    /\ m = "closed"

\* C7: a failed lookup skips that uprobe only: no attach is requested for it
\* and the counter does not move (the counter and the attach calls count the
\* resolved uprobes alone), the loop goes on to every other declared uprobe,
\* and the run never returns an error on account of the lookup when some
\* other uprobe attached.
C7_MissingSymbolIsSoft ==
    /\ probes_attached = Cardinality(Outcomes("attached"))
    /\ CountOps("AttachUprobe") =
           Cardinality(Outcomes("attached")) + Cardinality(Outcomes("rejected"))
    /\ \A i \in Outcomes("skipped") :
           lookupSymbol(libc_elf, attempts[i].fn).err # "nil"
    /\ (Outcomes("skipped") # {} /\ Outcomes("rejected") = {} /\ pc # "attach") =>
           { attempts[i].name : i \in 1..Len(attempts) } = uprobes
    /\ (Outcomes("skipped") # {} /\ Outcomes("attached") # {} /\ ReturnedError) =>
           retErr \in {"attach", "initPerfMap"}

C7_Witness ==
    /\ pc = "waitSig"
    /\ Len(attempts) = 3
    /\ attempts[1].outcome = "skipped"
    /\ attempts[2].outcome = "attached"
    /\ attempts[3].outcome = "skipped"

\* C8 (as claimed): every run whose attachment pass attached at least one
\* uprobe and skipped the others has called PollStart by the time it
\* returns.
C8_OneProbeAlwaysPolls ==
    (Returned /\ PassEnded /\ probes_attached >= 1) => Called("PollStart")

\* C8 (amended): once the attachment pass has ended with at least one uprobe
\* attached, the run goes on to bpf.InitPerfMap, and PollStart is eventually
\* called unless InitPerfMap fails, in which case the run returns that error
\* without polling.
C8_OneProbePollsUnlessPerfMapFails ==
    /\ [](( PassEnded /\ probes_attached >= 1 /\ ReturnedError) =>
              (retErr = "initPerfMap" /\ ~Called("PollStart")))
    /\ (PassEnded /\ probes_attached >= 1) ~>
           (Called("PollStart") \/ retErr = "initPerfMap")

C8_Witness ==
    /\ Called("PollStart")
    /\ probes_attached = 1
    /\ Cardinality(Outcomes("skipped")) = 2

\* the state of the lifecycle state machine the run is in
LifecycleState ==
    CASE pc = "load" -> "Unloaded"
      [] pc = "findLibc" -> "Loaded"
      [] pc \in {"elfOpen", "attach", "initPerfMap", "notify", "go", "pollStart"} -> "Attaching"
      [] pc \in {"waitSig", "pollStop"} -> "Polling"
      [] pc = "defer" -> IF retErr = "nil" THEN "Stopping"
                         ELSE IF retErr = "findLibc" THEN "Loaded"
                         ELSE "Attaching"
      [] pc = "returned" -> "Unloaded"

\* position of a call in the order load, attach, poll, stop, release
OpRank(op) ==
    CASE op = "Load" -> 1
      [] op = "IterUprobes" -> 2
      [] op = "AttachUprobe" -> 3
      [] op = "InitPerfMap" -> 4
      [] op = "PollStart" -> 5
      [] op = "PollStop" -> 6
      [] op = "Close" -> 7

OpsInOrder ==
    /\ \A i, j \in 1..Len(ops) :
           i < j => \/ OpRank(ops[i]) < OpRank(ops[j])
                    \/ ops[i] = "AttachUprobe" /\ ops[j] = "AttachUprobe"
    /\ Len(ops) >= 2 => (ops[1] = "Load" /\ m # "new")
    /\ Called("PollStart") =>
           /\ PassEnded
           /\ probes_attached >= 1
           /\ Called("InitPerfMap")
    /\ Called("PollStop") => Called("PollStart")
    /\ (Called("Close") /\ retErr = "nil") => Called("PollStop")
    /\ (Called("Close") /\ ~Called("PollStop")) => ReturnedError
    /\ (Returned /\ retErr = "nil") =>
           /\ Called("AttachUprobe")
           /\ Called("Close")

LifecycleStep ==
    LET from == LifecycleState
        to == LifecycleState'
    IN  /\ pc = "returned" => pc' = "returned"
        /\ \/ to = from
           \/ from = "Unloaded" /\ to = "Loaded" /\ pc = "load"
           \/ from = "Loaded" /\ to = "Attaching" /\ ~ReturnedError'
           \/ from = "Attaching" /\ to = "Polling" /\ Called("PollStart")'
           \/ from = "Polling" /\ to = "Stopping" /\ Called("PollStop")'
           \/ from = "Stopping" /\ to = "Unloaded" /\ m' = "closed"
           \/ from \in {"Loaded", "Attaching"} /\ to = "Unloaded"
                 /\ ReturnedError' /\ m' = "closed"

\* C9: the run moves through Unloaded, Loaded, Attaching, Polling, Stopping,
\* Unloaded in that order: uprobes are attached only after a successful load,
\* PollStart is called only after the attachment pass has ended, PollStop only
\* after PollStart, and on the success path Close only after PollStop; no
\* state is skipped or entered again, and the only other way out of Loaded or
\* Attaching is straight to Unloaded with an error and the module closed.
C9_LifecycleOrder == [] OpsInOrder /\ [][LifecycleStep]_vars

C9_Witness ==
    /\ Returned
    /\ retErr = "nil"
    /\ ops[Len(ops)] = "Close"
    /\ Cardinality(Outcomes("skipped")) = 1
    /\ Cardinality(Outcomes("attached")) = 2

\* C10 (as claimed): PollStop is called only after a signal was received,
\* and once polling has started every signal held in the channel leads to
\* PollStop, the Close of the module and a nil return, whatever the consumer
\* does meanwhile.
C10_SignalEndsPollingWithSuccess ==
    /\ [](Called("PollStop") => sigSent >= 1)
    /\ (Called("PollStart") /\ sig > 0) ~>
           (Called("PollStop") /\ m = "closed" /\ Returned /\ retErr = "nil")

\* the same, but for the runs in which the process does not die
C10_UnlessCrashed ==
    /\ [](Called("PollStop") => sigSent >= 1)
    /\ (Called("PollStart") /\ sig > 0) ~>
           (crashed \/ (Called("PollStop") /\ m = "closed" /\ Returned /\ retErr = "nil"))

\* a step in which DnsListenerEbpf executes a return statement
ReturnStep == pc \notin {"defer", "returned"} /\ pc' \in {"defer", "returned"}

\* C11: every fatal condition ends the run with an error and never with
\* success: each return statement executed before PollStop (failed load,
\* libc not found or not opened, rejected attach, zero uprobes attached,
\* failed InitPerfMap) sets a non-nil error with PollStart not called, and a
\* nil result is returned only after PollStart and PollStop.
C11_FatalMeansError ==
    /\ [] ( /\ Returned => retErr # "none"
            /\ (pc \notin {"defer", "returned"}) => retErr = "none"
            /\ (retErr = "nil") => (Called("PollStart") /\ Called("PollStop"))
            /\ ReturnedError => ~Called("PollStart")
            /\ (Outcomes("rejected") # {}) => ReturnedError
            /\ (PassEnded /\ probes_attached = 0) => ReturnedError
            /\ (ops = << "Load" >> /\ m = "new") => retErr = "load" )
    /\ [][ (ReturnStep /\ pc # "pollStop") =>
               (ReturnedError' /\ ~Called("PollStart")') ]_vars
    /\ [][ (ReturnStep /\ pc = "pollStop") => retErr' = "nil" ]_vars

C11_Witness ==
    /\ Returned
    /\ retErr = "initPerfMap"
    /\ m = "closed"
    /\ ~Called("PollStart")

\* the decoding of buf into a fresh record reaches the Track call
Decodes(buf) ==
    /\ ~LogDebugPanics(buf)
    /\ BinaryRead(buf, ZeroEvent).err = "nil"
    /\ ~HostOf(BinaryRead(buf, ZeroEvent).event).panic

\* the pair a buffer decodes to, from the buffer alone
PairOf(buf) ==
    LET ev == BinaryRead(buf, ZeroEvent).event
    IN  [ip |-> IPString(IpOf(ev)), host |-> HostOf(ev).host]

\* the pairs of the buffers of bufs that decode, in the order of bufs
RECURSIVE PairsOf(_)
PairsOf(bufs) ==
    IF bufs = << >> THEN << >>
    ELSE (IF Decodes(Head(bufs)) THEN << PairOf(Head(bufs)) >> ELSE << >>)
         \o PairsOf(Tail(bufs))

\* C12: the Track calls are the pairs of the received buffers that decoded,
\* in the order the buffers arrived: nothing is reordered, batched, repeated
\* or lost; the only pair not yet forwarded is the one of the buffer just
\* decoded, which is the argument of the next Track call.
C12_ForwardedInArrivalOrder ==
    /\ (cpc = "track") => Append(tracked, pending) = PairsOf(received)
    /\ (cpc # "track") => tracked = PairsOf(received)

C12_Witness ==
    /\ received = << Buf_v4, Buf_v6 >>
    /\ Len(tracked) = 2
    /\ tracked[1] = PairOf(Buf_v4)
    /\ tracked[2] = PairOf(Buf_v6)
    /\ tracked[1] # tracked[2]

\* the text "192.168.1.1"
Text_192_168_1_1 == << "1", "9", "2", ".", "1", "6", "8", ".", "1", ".", "1" >>

\* number of positions of seq that hold x
CountIn(seq, x) == Cardinality({ i \in 1..Len(seq) : seq[i] = x })

\* Track calls made or about to be made
Forwarded == IF cpc = "track" THEN Append(tracked, pending) ELSE tracked

\* C13: every buffer that decodes gives exactly one Track call: the number of
\* Track calls (counting the one being made) is the number of received
\* buffers that decoded, and the buffer that encodes family 2, address
\* 192.168.1.1 and hostname "example.com" gives Track("192.168.1.1",
\* "example.com") once for each time it was received.
C13_OneTrackPerDecodedBuffer ==
    /\ Len(Forwarded) = Cardinality({ i \in 1..Len(received) : Decodes(received[i]) })
    /\ CountIn(Forwarded, [ip |-> Text_192_168_1_1, host |-> Host_example])
           = CountIn(received, Buf_v4)
    /\ Buf_v4 = << 2, 0, 0, 0, 192, 168, 1, 1 >> \o Fill(12, 0)
                   \o Host_example \o Fill(HostSize - 11, 0)

C13_Witness ==
    /\ received = << Buf_v4 >>
    /\ cpc = "recv"
    /\ tracked = << [ip |-> Text_192_168_1_1, host |-> Host_example] >>

\* the family tag 2 as it lies in the buffer
Tag_AF_INET == << 2, 0, 0, 0 >>

\* C14: the family tag alone selects the width of the address: when the four
\* tag bytes of the decoded buffer are 2, 0, 0, 0 the address passed to Track
\* is the dotted quad of the first four address bytes, whatever the other
\* twelve hold, and for every other tag it is the text of all sixteen address
\* bytes.
C14_WidthByFamilyTag ==
    (cpc = "track") =>
        LET tag == SubSeq(data, 1, AddrTypeSize)
            addr == SubSeq(data, AddrTypeSize + 1, AddrTypeSize + IpSize)
        IN  IF tag = Tag_AF_INET
            THEN /\ pending.ip = DottedQuad(SubSeq(addr, 1, 4))
                 /\ \A b \in DecodeBuffers :
                        ( /\ SubSeq(b, 1, AddrTypeSize) = Tag_AF_INET
                          /\ SubSeq(b, AddrTypeSize + 1, AddrTypeSize + 4) = SubSeq(addr, 1, 4) )
                        => PairOf(b).ip = pending.ip
            ELSE pending.ip = IPString(addr)

C14_Witness ==
    /\ received = << Buf_v4_junk, Buf_af65538 >>
    /\ cpc = "track"
    /\ tracked[1].ip = Text_192_168_1_1
    /\ pending.ip = IPString(Ip_192_168_1_1_junk)
    /\ pending.ip # Text_192_168_1_1

\* C15: when the Host bytes of the decoded buffer hold a zero byte, the
\* hostname passed to Track is the bytes strictly before the first zero byte
\* (empty when the first byte is zero), and it is the hostname of the same
\* record with every byte after that zero byte cleared.
C15_HostUpToFirstZero ==
    (cpc = "track") =>
        LET h == HostRegion(data)
        IN  \E n \in 0..(HostSize - 1) :
                /\ h[n + 1] = 0
                /\ \A k \in 1..n : h[k] # 0
                /\ pending.host = SubSeq(h, 1, n)
                /\ Len(pending.host) = n
                /\ pending.host =
                       PairOf(SubSeq(data, 1, AddrTypeSize + IpSize + n)
                              \o Fill(HostSize - n, 0)).host

C15_Witness ==
    /\ received = << Buf_host_empty, Buf_host_tail >>
    /\ cpc = "track"
    /\ tracked[1].host = << >>
    /\ pending.host = << 97, 98 >>

\* the uprobes the loop has taken from the iterator so far
Attempted == { attempts[i].name : i \in 1..Len(attempts) }

\* C16: nothing is retried within a run: every declared uprobe is looked up
\* at most once and attached at most once, whether it was skipped, attached
\* or rejected; the module is loaded once and its uprobes are iterated once.
C16_NoRetry ==
    /\ \A i, j \in 1..Len(attempts) :
           attempts[i].name = attempts[j].name => i = j
    /\ Attempted \subseteq uprobes
    /\ Attempted \cap remaining = {}
    /\ Called("IterUprobes") => Attempted \cup remaining = uprobes
    /\ Len(attempts) <= Cardinality(uprobes)
    /\ CountOps("AttachUprobe") =
           Cardinality(Outcomes("attached") \cup Outcomes("rejected"))
    /\ CountOps("Load") <= 1
    /\ CountOps("IterUprobes") <= 1
    /\ Cardinality(Outcomes("rejected")) <= 1

C16_Witness ==
    /\ Returned
    /\ Len(attempts) = 3
    /\ attempts[1].outcome = "skipped"
    /\ attempts[2].outcome = "attached"
    /\ attempts[3].outcome = "rejected"
    /\ remaining = {}

\* C17 (as claimed): the function looked up for a uprobe is its name without
\* the leading "uprobe/" or "uretprobe/", nothing else removed, and the
\* lookup depends on that function alone, not on the kind.
C17_KindPrefixStripped ==
    \A i \in 1..Len(attempts) :
        \A prefix \in { Str_uprobe, Str_uretprobe } :
            HasPrefix(attempts[i].name, prefix) =>
                /\ attempts[i].fn =
                       SubSeq(attempts[i].name, Len(prefix) + 1, Len(attempts[i].name))
                /\ attempts[i].offset = lookupSymbol(libc_elf, attempts[i].fn).offset

\* the position of the first entry of the symbol table named fn, 0 when none
FirstNamed(fn) ==
    LET hits == { k \in 1..Len(libc_elf.syms) : libc_elf.syms[k].Name = fn }
    IN  IF hits = {} THEN 0 ELSE CHOOSE k \in hits : \A l \in hits : k <= l

\* C18: the lookup is an exact match in table order: a uprobe whose function
\* names an entry gets the Value of the first entry with exactly that name
\* (0x1234 for getaddrinfo in {getaddrinfo: 0x1234, gethostbyname: 0x5678});
\* a function that names no entry, even if it begins or lies inside an
\* entry's name or an entry's name begins it, gets offset 0 and the not-found
\* error, and the uprobe is skipped.
C18_ExactFirstMatch ==
    \A i \in 1..Len(attempts) :
        LET fn == attempts[i].fn
            k == FirstNamed(fn)
            r == lookupSymbol(libc_elf, fn)
        IN  /\ attempts[i].offset = r.offset
            /\ (attempts[i].outcome = "skipped") <=> (r.err # "nil")
            /\ IF libc_elf.err
               THEN r.err = "symbols" /\ r.offset = 0
               ELSE IF k = 0
               THEN r.err = "notfound" /\ r.offset = 0
               ELSE /\ r.err = "nil"
                    /\ r.offset = libc_elf.syms[k].Value
                    /\ \A l \in 1..(k - 1) : libc_elf.syms[l].Name # fn
            /\ ( /\ ~libc_elf.err
                 /\ fn = Str_getaddrinfo
                 /\ Len(libc_elf.syms) <= 3
                 /\ libc_elf.syms[1] = Sym(Str_getaddrinfo, 4660) ) => r.offset = 4660
            /\ fn = Str_nosuch => r.err # "nil"

C18_Witness ==
    /\ Len(attempts) = 1
    /\ attempts[1].fn = Str_getaddrinfo
    /\ attempts[1].offset = 4660
    /\ attempts[1].outcome = "attached"
    /\ Len(libc_elf.syms) = 3
    /\ libc_elf.syms[3].Name = Str_getaddrinfo
    /\ libc_elf.syms[3].Value # 4660

\* the record after the buffers bufs were read into it one after the other:
\* the decoding of the last buffer of full length, the zero value without one
RECURSIVE LastRead(_)
LastRead(bufs) ==
    IF bufs = << >> THEN ZeroEvent
    ELSE IF Len(bufs[Len(bufs)]) >= EventSize
         THEN [AddrType |-> LittleEndianUint32(SubSeq(bufs[Len(bufs)], 1, AddrTypeSize)),
               Ip |-> SubSeq(bufs[Len(bufs)], AddrTypeSize + 1, AddrTypeSize + IpSize),
               Host |-> HostRegion(bufs[Len(bufs)])]
         ELSE LastRead(SubSeq(bufs, 1, Len(bufs) - 1))

\* C19: the record reused across iterations carries nothing from one buffer
\* to the next: the arguments of each Track call are the pair that the buffer
\* just received decodes to on its own, into a zeroed record, whatever
\* buffers came before it, and a buffer that fails to decode leaves the
\* record as it was and causes no Track call.
C19_TrackDependsOnCurrentBufferOnly ==
    /\ (cpc = "track") =>
           /\ Decodes(data)
           /\ pending = PairOf(data)
           /\ event = BinaryRead(data, ZeroEvent).event
    /\ (cpc = "recv" /\ received # << >> /\ Len(data) < EventSize) =>
           /\ event = LastRead(received)
           /\ tracked = PairsOf(SubSeq(received, 1, Len(received) - 1))
    /\ \A i \in 1..Len(tracked) : \E j \in i..Len(received) :
           tracked[i] = PairOf(received[j])

C19_Witness ==
    /\ received = << Buf_v4, Buf_cut, Buf_v6 >>
    /\ cpc = "track"
    /\ tracked = << PairOf(Buf_v4) >>
    /\ pending = PairOf(Buf_v6)
    /\ pending.host = Host_ab

\* the calls of a run that polled and ended: PollStart, PollStop, Close last
EndedInOrder ==
    /\ Len(ops) >= 3
    /\ ops[Len(ops) - 2] = "PollStart"
    /\ ops[Len(ops) - 1] = "PollStop"
    /\ ops[Len(ops)] = "Close"

\* C20 (as claimed): the handler is registered and the consumer started
\* before PollStart, no buffer is received before the consumer exists,
\* PollStop never precedes PollStart, and a signal held in the one-slot
\* channel at any point after the registration always leads to PollStart,
\* PollStop, Close and a nil return.
C20_SignalNotLost ==
    /\ [](Called("PollStart") => (sigRegistered /\ cpc # "none"))
    /\ [](received # << >> => (cpc # "none" /\ Called("PollStart")))
    /\ [](Called("PollStop") => Called("PollStart"))
    /\ [](sig <= SigChanCap)
    /\ (sigRegistered /\ sig > 0) ~>
           (Returned /\ retErr = "nil" /\ EndedInOrder)

\* the same, but for the runs in which the process does not die
C20_UnlessCrashed ==
    /\ [](Called("PollStart") => (sigRegistered /\ cpc # "none"))
    /\ [](received # << >> => (cpc # "none" /\ Called("PollStart")))
    /\ [](Called("PollStop") => Called("PollStart"))
    /\ [](sig <= SigChanCap)
    /\ (sigRegistered /\ sig > 0) ~>
           (crashed \/ (Returned /\ retErr = "nil" /\ EndedInOrder))

====
